---- MODULE Spec2Model ----
(***************************************************************************)
(* Model of omnect-cli's image editing core:                               *)
(*   - src/src/validators/image.rs : validate_and_decompress_image, the    *)
(*     transparent compression wrapper (specification Spec);               *)
(*   - src/src/file/functions.rs   : copy_to_image / copy_from_image, the  *)
(*     partition read / modify / write engine (specifications SpecCopy     *)
(*     and SpecFrom), and the request type FileCopyToParams with its       *)
(*     parser (specification SpecParse);                                   *)
(*   - XzGenerator::get_level of image.rs (specification SpecXz), the      *)
(*     fdisk | grep | awk pipelines of functions.rs with their processes   *)
(*     and pipes (specification SpecPipe, with fairness), and two          *)
(*     copy_to_image calls running at once (specification SpecRace).       *)
(* Files are modelled by their content; external tools (dd, mcopy, e2cp,   *)
(* fdisk, ...) and I/O calls are steps whose outcome is chosen by the      *)
(* environment.                                                            *)
(***************************************************************************)
EXTENDS Integers, Sequences, FiniteSets, TLC

\* ------------------------------------------------------------------ bounds
\* number of distinct payloads a file body can have
MaxBody == 2
\* number of validate_and_decompress_image calls in one behaviour
MaxShimRuns == 2

(***************************************************************************)
(* PART 1 - validators/image.rs                                            *)
(***************************************************************************)

VARIABLES
    files,      \* path -> content of the file, or NoFile
    shPc,       \* position inside validate_and_decompress_image
    elem,       \* index of the matched COMPRESSION_TABLE entry, 0 = none
    magic,      \* the description libmagic returned for the image
    success,    \* the local `success` (image.rs:173), "none" before it is set
    shResult,   \* value returned by the call, "none" while running
    shRuns,     \* calls started so far
    files0,     \* `files` when the call started
    actionArg,  \* <<path, content>> the action was invoked with, or <<>>
    actionWrote,\* TRUE when the action changed the file it was given
    actionRes,  \* what the action returned, "none" before it has run
    removed,    \* outcome of remove_file: "none", "ok" or "failed"
    nAction,    \* calls of the action in this run
    nDecompress,\* calls of decompress() in this run
    nCompress,  \* calls of compress() in this run
    nRemove     \* calls of remove_file in this run

shimVars == <<files, shPc, elem, magic, success, shResult, shRuns, files0,
              actionArg, actionWrote, actionRes, removed, nAction,
              nDecompress, nCompress, nRemove>>

\* The content of a path that holds no file.
NoFile == [layers |-> <<>>, body |-> -1]

\* A file content: a stack of compression layers around a body.  A layer that
\* is not `whole` is a stream that was cut before its end.
Bodies == 1..MaxBody
EmptyContent == [layers |-> <<>>, body |-> 0]
Layer(c, w) == [codec |-> c, whole |-> w]
Raw(b) == [layers |-> <<>>, body |-> b]

\* What the encoders write: one more layer around the source.
Encode(c, src) == [layers |-> <<Layer(c, TRUE)>> \o src.layers, body |-> src.body]
\* An encoder interrupted part-way: the stream header is there, the end is not.
EncodeCut(c, src) == [layers |-> <<Layer(c, FALSE)>> \o src.layers, body |-> src.body]
\* What the decoders do: strip the outer layer, or fail on foreign or cut data.
CanDecode(c, src) ==
    /\ src.layers # <<>>
    /\ Head(src.layers).codec = c
    /\ Head(src.layers).whole
Decode(c, src) == [layers |-> Tail(src.layers), body |-> src.body]

\* libmagic: the description of a content (Magic::file, image.rs:167).
MagicFile(c) ==
    IF c.layers = <<>>
    THEN IF c.body = 0 THEN "empty" ELSE "DOS/MBR boot sector"
    ELSE CASE Head(c.layers).codec = "xz" -> "XZ compressed data"
           [] Head(c.layers).codec = "bz" -> "bzip2 compressed data, block size = 900k"
           [] Head(c.layers).codec = "gz" -> "gzip compressed data, max compression"

\* str::find(marker) != None on the descriptions above.
Finds(desc, marker) ==
    \/ desc = "XZ compressed data" /\ marker = "XZ compressed data"
    \/ desc = "bzip2 compressed data, block size = 900k" /\ marker = "bzip2 compressed data"
    \/ desc = "gzip compressed data, max compression" /\ marker = "gzip compressed data"

COMPRESSION_TABLE ==
    << [marker |-> "XZ compressed data",    extension |-> "unxz.tmp",    generator |-> "Xz"],
       [marker |-> "bzip2 compressed data", extension |-> "unbzip2.tmp", generator |-> "Bz"],
       [marker |-> "gzip compressed data",  extension |-> "ungzip.tmp",  generator |-> "Gz"] >>

Extensions == {COMPRESSION_TABLE[i].extension : i \in DOMAIN COMPRESSION_TABLE}
ShimPaths == {"image"} \cup Extensions

\* The codec a generator's encoder writes.
CodecOf(g) == CASE g = "Xz" -> "xz" [] g = "Bz" -> "bz" [] g = "Gz" -> "gz"

\* CompressionGenerator::compress of the three generators: the result of
\* streaming `src` through the encoder.
GenCompressAllGz(g, src) == Encode("gz", src)
GenCompress(g, src) == Encode(CodecOf(g), src)

\* CompressionGenerator::decompress.  XzGenerator builds its stream with
\* MtStreamBuilder::encoder() and hands it to XzDecoder::new_stream, so the
\* data written through it is encoded; BzDecoder and GzDecoder decode.
\* ok = FALSE: the codec returned an error.
GenDecompress(g, src) ==
    IF g = "Xz"
    THEN [ok |-> TRUE, out |-> Encode("xz", src)]
    ELSE IF CanDecode(CodecOf(g), src)
         THEN [ok |-> TRUE, out |-> Decode(CodecOf(g), src)]
         ELSE [ok |-> FALSE, out |-> EmptyContent]

\* for elem in COMPRESSION_TABLE { if magic.find(elem.marker) != None ...:
\* the first entry whose marker the description contains, 0 when none does.
LookupFirstEntry(desc) == 1
Lookup(desc) ==
    IF \E i \in DOMAIN COMPRESSION_TABLE : Finds(desc, COMPRESSION_TABLE[i].marker)
    THEN CHOOSE i \in DOMAIN COMPRESSION_TABLE :
            /\ Finds(desc, COMPRESSION_TABLE[i].marker)
            /\ \A j \in 1..(i-1) : ~Finds(desc, COMPRESSION_TABLE[j].marker)
    ELSE 0

\* PathBuf::set_extension(extension) on the image path: the scratch path.
ScratchPath(i) == COMPRESSION_TABLE[i].extension

\* match success { Ok => compress(...), _ => {} }: where the call goes after
\* the action returned.
AfterActionAlways(s) == "recompress"
AfterAction(s) == IF s = "Ok" THEN "recompress" ELSE "cleanup"

\* match remove_file(..) { Err(e) => success = Err(..), _ => {} }; return success
AfterRemove(s, ok) == IF ok THEN s ELSE "ErrDelete"

\* The images a call can be given.
ImageInputs ==
    {Raw(b) : b \in Bodies}
    \cup {Encode(c, Raw(b)) : c \in {"xz", "bz", "gz"}, b \in Bodies}
    \cup {EncodeCut(c, Raw(b)) : c \in {"xz", "bz", "gz"}, b \in Bodies}

ShimInit ==
    /\ \E img \in ImageInputs :
          /\ files = [p \in ShimPaths |-> IF p = "image" THEN img ELSE NoFile]
          /\ files0 = files
    /\ shPc = "detect"
    /\ elem = 0
    /\ magic = "none"
    /\ success = "none"
    /\ shResult = "none"
    /\ shRuns = 1
    /\ actionArg = <<>>
    /\ actionWrote = FALSE
    /\ actionRes = "none"
    /\ removed = "none"
    /\ nAction = 0
    /\ nDecompress = 0
    /\ nCompress = 0
    /\ nRemove = 0

\* image.rs:147-170: open libmagic, load its database, describe the image and
\* search the table.
Detect ==
    /\ shPc = "detect"
    /\ \/ /\ shResult' = "ErrMagic"          \* Magic::open / load / file failed
          /\ shPc' = "done"
          /\ UNCHANGED <<elem, magic>>
       \/ /\ magic' = MagicFile(files["image"])
          /\ elem' = Lookup(magic')
          /\ shPc' = IF elem' = 0 THEN "passthrough" ELSE "decompress"
          /\ UNCHANGED shResult
    /\ UNCHANGED <<files, success, shRuns, files0, actionArg, actionWrote,
                   actionRes, removed, nAction, nDecompress, nCompress,
                   nRemove>>

\* image.rs:171 and 213-225: decompress(image, extension, generator)?
Decompress ==
    /\ shPc = "decompress"
    /\ nDecompress' = nDecompress + 1
    /\ LET sp == ScratchPath(elem)
           r  == GenDecompress(COMPRESSION_TABLE[elem].generator, files["image"])
       IN \/ /\ UNCHANGED files             \* File::create(new_image_file) failed
             /\ shResult' = "ErrDecompress"
             /\ shPc' = "done"
          \/ /\ files' = [files EXCEPT ![sp] = EmptyContent]
             /\ shResult' = "ErrDecompress" \* File::open(image) failed, or the
             /\ shPc' = "done"              \* copy failed before any output
          \/ /\ ~r.ok                       \* the decoder rejected the data
             /\ files' = [files EXCEPT ![sp] = r.out]
             /\ shResult' = "ErrDecompress"
             /\ shPc' = "done"
          \/ /\ r.ok
             /\ files' = [files EXCEPT ![sp] = r.out]
             /\ shPc' = "invoke"
             /\ UNCHANGED shResult
    /\ UNCHANGED <<elem, magic, success, shRuns, files0, actionArg, actionWrote,
                   actionRes, removed, nAction, nCompress, nRemove>>

\* The caller's closure, run on `path`: it may rewrite the body of the file it
\* was given and returns Ok or its own error.
RunAction(path, res) ==
    /\ nAction' = nAction + 1
    /\ actionArg' = <<path, files[path]>>
    /\ \/ /\ UNCHANGED files
          /\ actionWrote' = FALSE
       \/ \E b \in Bodies :
             /\ b # files[path].body
             /\ files' = [files EXCEPT ![path].body = b]
             /\ actionWrote' = TRUE
    /\ actionRes' = res

\* image.rs:173-194: let mut success = action(&new_image_file); match success
Invoke ==
    /\ shPc = "invoke"
    /\ \E res \in {"Ok", "ErrAction"} :
          /\ RunAction(ScratchPath(elem), res)
          /\ success' = res
          /\ shPc' = AfterAction(res)
    /\ UNCHANGED <<elem, magic, shResult, shRuns, files0, removed, nDecompress,
                   nCompress, nRemove>>

\* image.rs:181-191 and 227-237: compress(&new_image_file, image, generator)
Recompress ==
    /\ shPc = "recompress"
    /\ nCompress' = nCompress + 1
    /\ LET sp  == ScratchPath(elem)
           gen == COMPRESSION_TABLE[elem].generator
       IN \/ /\ UNCHANGED files             \* File::create(image) failed
             /\ success' = "ErrRecompress"
          \/ /\ files' = [files EXCEPT !["image"] = EmptyContent]
             /\ success' = "ErrRecompress"  \* image truncated, File::open(scratch) failed
          \/ /\ files[sp] # NoFile          \* the encoder or a write failed part-way
             /\ files' = [files EXCEPT !["image"] =
                             EncodeCut(CodecOf(gen), files[sp])]
             /\ success' = "ErrRecompress"
          \/ /\ files[sp] # NoFile
             /\ files' = [files EXCEPT !["image"] = GenCompress(gen, files[sp])]
             /\ UNCHANGED success
    /\ shPc' = "cleanup"
    /\ UNCHANGED <<elem, magic, shResult, shRuns, files0, actionArg,
                   actionWrote, actionRes, removed, nAction, nDecompress,
                   nRemove>>

\* image.rs:195-207: remove_file(new_image_file), then return success
Cleanup ==
    /\ shPc = "cleanup"
    /\ nRemove' = nRemove + 1
    /\ \E ok \in BOOLEAN :
          /\ files' = IF ok THEN [files EXCEPT ![ScratchPath(elem)] = NoFile]
                            ELSE files
          /\ removed' = IF ok THEN "ok" ELSE "failed"
          /\ shResult' = AfterRemove(success, ok)
    /\ shPc' = "done"
    /\ UNCHANGED <<elem, magic, success, shRuns, files0, actionArg,
                   actionWrote, actionRes, nAction, nDecompress, nCompress>>

\* image.rs:210: action(image_file_name)
Passthrough ==
    /\ shPc = "passthrough"
    /\ \E res \in {"Ok", "ErrAction"} :
          /\ RunAction("image", res)
          /\ shResult' = res
    /\ shPc' = "done"
    /\ UNCHANGED <<elem, magic, success, shRuns, files0, removed, nDecompress,
                   nCompress, nRemove>>

\* The next call of validate_and_decompress_image on the same image path.
ShimCall ==
    /\ shPc = "done"
    /\ shRuns < MaxShimRuns
    /\ shRuns' = shRuns + 1
    /\ shPc' = "detect"
    /\ files0' = files
    /\ elem' = 0
    /\ magic' = "none"
    /\ success' = "none"
    /\ shResult' = "none"
    /\ actionArg' = <<>>
    /\ actionWrote' = FALSE
    /\ actionRes' = "none"
    /\ removed' = "none"
    /\ nAction' = 0
    /\ nDecompress' = 0
    /\ nCompress' = 0
    /\ nRemove' = 0
    /\ UNCHANGED files

(***************************************************************************)
(* PART 2 - file/functions.rs                                              *)
(***************************************************************************)

\* requests in one copy_to_image / copy_from_image call
MaxReqs == 2
\* requests over all the calls of one behaviour
MaxTotal == 3
\* copy_to_image / copy_from_image calls in one behaviour
MaxCalls == 2
\* requests over all the calls of a behaviour that also reads files back
MaxFromTotal == 2

VARIABLES
    disklabel,  \* the "Disklabel type:" fdisk prints for the image
    img,        \* the image file, a sequence of 512-byte sectors
    parts,      \* the scratch partition files <n>.img of the working directory
    host,       \* host files the calls read back into: path -> body, 0 = absent
    cp,         \* the running call: its position and locals
    cnt,        \* per call: counts of the operations, tool runs and warn!
                \* lines, what became of the last mmd and of the last e2cp
                \* out of the image, and the steps of the call in order
    snap,       \* per call: what the call started from and wrote back
    total,      \* calls made and requests handed to them so far
    lim         \* the calls a behaviour may make: [reqs, from]

copyVars == <<disklabel, img, parts, host, cp, cnt, snap, total, lim>>

Partition == {"boot", "rootA", "cert", "factory"}

\* In-image paths of the requests, as component sequences below "/".
InPaths == {<<"x">>, <<"d", "e", "x">>}
InDirs == {<<"d">>, <<"d", "e">>}
Parent(p) == SubSeq(p, 1, Len(p) - 1)

\* The file system inside a partition: file bodies (0 = no such file) and the
\* directories besides the root.
EmptyFs == [files |-> [p \in InPaths |-> 0], dirs |-> {}]
DirExists(fs, d) == d = <<>> \/ d \in fs.dirs

\* Sectors: the partition table and the gap behind it, and the sectors that
\* hold a partition's file system.
Meta == [tag |-> "meta", fs |-> EmptyFs]
FsSector(f) == [tag |-> "fs", fs |-> f]

\* The "Disklabel type:" values of the images: the two the tool is made for
\* and one more of those fdisk knows.
DisklabelTypes == {"gpt", "dos", "sun"}
\* fdisk -l -o Device,Start,End: partition number -> <<Start, End>>, in
\* sectors counted from 0.  gpt images number factory 4 and cert 5, the
\* others (dos: 4 is the extended partition) 5 and 6.
FdiskRows(label) ==
    IF label = "gpt"
    THEN (1 :> <<2, 2>>) @@ (2 :> <<3, 3>>) @@ (4 :> <<4, 4>>) @@ (5 :> <<5, 5>>)
    ELSE (1 :> <<2, 2>>) @@ (2 :> <<3, 3>>) @@ (5 :> <<4, 4>>) @@ (6 :> <<5, 5>>)
PartNums == {1, 2, 4, 5, 6}
NewImage == <<Meta, Meta, FsSector(EmptyFs), FsSector(EmptyFs),
              FsSector(EmptyFs), FsSector(EmptyFs)>>
NoPart == [exists |-> FALSE, data |-> <<>>]

\* FileCopyToParams: in_file, partition, out_file.  The host files of the
\* requests all differ: in_file is the body of the file, and the i-th request
\* of a behaviour carries body i (the code never looks at the bodies).
CopyToParams(i) == [in_file : {i}, partition : Partition, out_file : InPaths]
CopyToLists(n, used) ==
    {rs \in [1..n -> [in_file : (used + 1)..(used + n), partition : Partition,
                      out_file : InPaths]] :
        \A i \in 1..n : rs[i] \in CopyToParams(used + i)}

\* FileCopyFromParams: partition, in_file (in the image), out_file (on the
\* host).  Host paths: a directory and a file name.
HostPaths == {<<"wd", "x">>, <<"out", "x">>}
CopyFromParams == [partition : Partition, in_file : InPaths, out_file : HostPaths]
\* Path::file_name
FileName(p) == p[Len(p)]
\* tmp_out_file: working_dir joined with the file name of in_file (boot) or
\* of out_file (the others), functions.rs:331 and 342
TmpOutFile(param) ==
    IF param.partition = "boot" THEN <<"wd", FileName(param.in_file)>>
    ELSE <<"wd", FileName(param.out_file)>>
\* The body of a file that was on the host before the first call.
OldBody == MaxTotal + 1

Min(a, b) == IF a < b THEN a ELSE b

\* The numbering of gpt images, whatever the disklabel type.
get_partition_num_gpt(partition, partition_type) ==
    CASE partition = "boot" -> 1
      [] partition = "rootA" -> 2
      [] partition = "factory" -> 4
      [] partition = "cert" -> 5
      [] OTHER -> 0
\* match (p, partition_type.as_str()) of get_partition_num; 0 stands for
\* bail!("get_partition_num: unhandled partition type")
get_partition_num(partition, partition_type) ==
    CASE partition = "boot" -> 1
      [] partition = "rootA" -> 2
      [] partition = "factory" /\ partition_type = "gpt" -> 4
      [] partition = "factory" /\ partition_type = "dos" -> 5
      [] partition = "cert" /\ partition_type = "gpt" -> 5
      [] partition = "cert" /\ partition_type = "dos" -> 6
      [] OTHER -> 0

\* One entry per partition, holding its requests last request first.
partition_map_reversed(rs) ==
    {[partition |-> k,
      items |-> LET q == SelectSeq(rs, LAMBDA r : r.partition = k)
                IN [i \in 1..Len(q) |-> q[Len(q) + 1 - i]]] :
        k \in {rs[i].partition : i \in DOMAIN rs}}
\* for params in file_copy_params.iter() { partition_map.entry(..) ... }:
\* one entry per partition, holding its requests in request order.
partition_map_per_request(rs) ==
    {[partition |-> rs[i].partition, items |-> <<rs[i]>>] : i \in DOMAIN rs}
partition_map(rs) ==
    {[partition |-> k,
      items |-> SelectSeq(rs, LAMBDA r : r.partition = k)] :
        k \in {rs[i].partition : i \in DOMAIN rs}}

\* A copy of the sectors from `skip` to `last`, both counted from 0.
DdReadUpTo(image, skip, last) ==
    SubSeq(image, skip + 1, Min(last + 1, Len(image)))
\* dd if=image of=partition_file bs=512 skip=Start count=End: `count`
\* sectors from sector `skip` on, or as many as the image has.
DdRead(image, skip, count) ==
    SubSeq(image, skip + 1, Min(skip + count, Len(image)))
\* dd if=partition_file of=image bs=512 seek=Start count=End conv=notrunc:
\* the first n sectors that dd got to write.
DdWrite(image, data, seek, n) ==
    [i \in 1..(IF seek + n > Len(image) THEN seek + n ELSE Len(image)) |->
        IF i > seek /\ i <= seek + n THEN data[i - seek]
        ELSE IF i <= Len(image) THEN image[i] ELSE Meta]

\* dir_path.iter().skip(1): the directories mmd is run for, outermost first.
MmdDirs(out_file) == [i \in 1..(Len(out_file) - 1) |-> SubSeq(out_file, 1, i)]

\* The file system a tool finds in a scratch partition file.
Usable(n) == parts[n].exists /\ Len(parts[n].data) >= 1 /\ parts[n].data[1].tag = "fs"
PartFs(n) == parts[n].data[1].fs
WithFs(n, f) == [parts EXCEPT ![n].data[1] = FsSector(f)]

\* mmd: creates one directory; fails when it exists or its parent is missing.
CanMmd(fs, d) == DirExists(fs, Parent(d)) /\ d \notin fs.dirs
\* e2mkdir: creates the directory and its missing parents.
E2mkdir(fs, d) == [fs EXCEPT !.dirs = @ \cup {SubSeq(d, 1, i) : i \in 1..Len(d)}]
\* mcopy -o / e2cp into the partition: the destination directory must exist.
CanCopyIn(fs, out_file) == DirExists(fs, Parent(out_file))
CopyIn(fs, body, out_file) == [fs EXCEPT !.files[out_file] = body]

NoCounts ==
    [read |-> [k \in Partition |-> 0], write |-> [k \in Partition |-> 0],
     ddIn |-> 0, ddOut |-> 0, calls |-> 0,
     warns |-> 0, mmd |-> "none", e2cp |-> "none", log |-> <<>>]
Idle ==
    [pc |-> "idle", op |-> "none", reqs |-> <<>>, todo |-> {}, rest |-> <<>>,
     partition |-> "none", partition_type |-> "none", partition_num |-> 0,
     partition_offset |-> <<0, 0>>,
     items |-> <<>>, dirs |-> <<>>, result |-> "none"]

\* `?` and ensure!: the call returns the error at once.
Fail(err) == [cp EXCEPT !.pc = "done", !.result = err]
Called == [cnt EXCEPT !.calls = @ + 1]
\* One more step of the call: what is done, for which partition and, inside
\* the loop over the requests, for which in_file (0 outside of it).
Log(c, op, partition, in_file) ==
    [c EXCEPT !.log = Append(@, <<op, partition, in_file>>)]

\* Where the loop over the partition's requests (functions.rs:254) goes next.
FilePc(partition, items) ==
    IF items = <<>> THEN "write"
    ELSE IF partition = "boot"
         THEN IF MmdDirs(Head(items).out_file) = <<>> THEN "mcopy" ELSE "mmd"
         ELSE "e2mkdir"
FileDirs(partition, items) ==
    IF items # <<>> /\ partition = "boot" THEN MmdDirs(Head(items).out_file) ELSE <<>>

\* What a call starts from; prevTo: the requests of the call before it when
\* that was a copy_to_image that returned Ok.
NewSnap ==
    [parts0 |-> parts, img0 |-> img, host0 |-> host,
     wrote |-> [k \in Partition |-> <<>>],
     prevTo |-> IF cp.op = "to" /\ cp.result = "Ok" THEN cp.reqs ELSE <<>>]

\* A freshly built image of either disklabel type, no scratch partition file
\* next to it.
FreshImage ==
    /\ disklabel \in DisklabelTypes
    /\ img = NewImage
    /\ parts = [n \in PartNums |-> NoPart]

CopyInit ==
    /\ FreshImage
    /\ host = [p \in HostPaths |-> 0]
    /\ cp = Idle
    /\ cnt = NoCounts
    /\ snap = NewSnap
    /\ total = [calls |-> 0, reqs |-> 0]
    /\ lim = [reqs |-> MaxTotal, from |-> FALSE]

\* copy_to_image(file_copy_params, image_file), functions.rs:220-237
CopyToCall ==
    /\ cp.pc \in {"idle", "done"}
    /\ total.calls < MaxCalls
    /\ \E n \in 0..Min(MaxReqs, lim.reqs - total.reqs) :
       \E rs \in CopyToLists(n, total.reqs) :
          /\ cp' = [Idle EXCEPT !.pc = "loop", !.op = "to", !.reqs = rs,
                                !.todo = partition_map(rs)]
          /\ total' = [calls |-> total.calls + 1, reqs |-> total.reqs + n]
    /\ cnt' = NoCounts
    /\ snap' = NewSnap
    /\ UNCHANGED <<disklabel, img, parts, host, lim>>

\* functions.rs:240-243: the next key of the HashMap, in the map's (unspecified)
\* iteration order, and get_partition_num for it (functions.rs:372-400).
ToNextPartition ==
    /\ cp.pc = "loop" /\ cp.op = "to"
    /\ \E g \in cp.todo :
          LET entered == [cp EXCEPT !.todo = @ \ {g}, !.partition = g.partition,
                                    !.partition_type = "none", !.items = g.items]
          IN IF g.partition \in {"boot", "rootA"}
             THEN /\ cp' = [entered EXCEPT !.pc = "offset",
                               !.partition_num = get_partition_num(g.partition, "")]
                  /\ cnt' = Log(cnt, "num", g.partition, 0)
             ELSE /\ cnt' = Log(Called, "num", g.partition, 0)
                  /\ \E out \in {"spawn failed", "", disklabel} :
                        IF out = "spawn failed"
                        THEN cp' = [entered EXCEPT !.pc = "done", !.result = "ErrSpawn"]
                        ELSE IF get_partition_num(g.partition, out) = 0
                        THEN cp' = [entered EXCEPT !.pc = "done", !.result = "ErrNum",
                                       !.partition_type = out]
                        ELSE cp' = [entered EXCEPT !.pc = "offset",
                                       !.partition_type = out,
                                       !.partition_num = get_partition_num(g.partition, out)]
    /\ UNCHANGED <<disklabel, img, parts, host, snap, total, lim>>

\* functions.rs:302: Ok(()) once every partition is done
ToFinish ==
    /\ cp.pc = "loop" /\ cp.op = "to"
    /\ cp.todo = {}
    /\ cp' = [cp EXCEPT !.pc = "done", !.result = "Ok"]
    /\ UNCHANGED <<disklabel, img, parts, host, cnt, snap, total, lim>>

\* get_partition_offset, functions.rs:402-433: the fdisk | grep | awk pipeline
\* and split_once(' ') of its output.
GetPartitionOffset ==
    /\ cp.pc = "offset"
    /\ cnt' = Log(Called, "offset", cp.partition, 0)
    /\ \E out \in {"spawn failed", "", "row"} :
          IF out = "row" /\ cp.partition_num \in DOMAIN FdiskRows(disklabel)
          THEN cp' = [cp EXCEPT !.pc = "read",
                         !.partition_offset = FdiskRows(disklabel)[cp.partition_num]]
          ELSE cp' = Fail("ErrOffset")
    /\ UNCHANGED <<disklabel, img, parts, host, snap, total, lim>>

\* A copy_from_image that goes on to the write-back after the extraction.
AfterReadWriteBack ==
    IF cp.op = "to" THEN FilePc(cp.partition, cp.items) ELSE "write"
\* The step after read_partition returned Ok.
AfterRead ==
    IF cp.op = "to" THEN FilePc(cp.partition, cp.items) ELSE "copy_out"

\* A look-up that finds no scratch file, whatever the directory holds.
partition_file_missing(n) == FALSE
\* A look-up that takes the scratch file only while it still equals what dd
\* would copy out of the image now.
partition_file_fresh(n) ==
    /\ parts[n].exists
    /\ parts[n].data = DdRead(img, cp.partition_offset[1], cp.partition_offset[2])
\* PathBuf::from(partition_file).try_exists(), functions.rs:440
partition_file_exists(n) == parts[n].exists

\* read_partition, functions.rs:435-452: nothing when the scratch file
\* exists, else dd from the image.
ReadPartition ==
    /\ cp.pc = "read"
    /\ LET n == cp.partition_num
           counted == Log([cnt EXCEPT !.read[cp.partition] = @ + 1],
                          "read", cp.partition, 0)
       IN IF partition_file_exists(n)
          THEN /\ cp' = [cp EXCEPT !.pc = AfterRead,
                            !.dirs = FileDirs(cp.partition, cp.items)]
               /\ cnt' = counted
               /\ UNCHANGED parts
          ELSE /\ cnt' = [counted EXCEPT !.ddIn = @ + 1, !.calls = @ + 1]
               /\ \/ /\ parts' = [parts EXCEPT ![n] =
                            [exists |-> TRUE,
                             data |-> DdRead(img, cp.partition_offset[1],
                                             cp.partition_offset[2])]]
                     /\ cp' = [cp EXCEPT !.pc = "read_sync"]
                  \/ /\ parts' \in {parts, [parts EXCEPT ![n] =
                                               [exists |-> TRUE, data |-> <<>>]]}
                     /\ cp' = Fail("ErrRead")
    /\ UNCHANGED <<disklabel, img, host, snap, total, lim>>

\* read_partition, functions.rs:454-457: sync
ReadSync ==
    /\ cp.pc = "read_sync"
    /\ cnt' = Called
    /\ \/ cp' = [cp EXCEPT !.pc = AfterRead, !.dirs = FileDirs(cp.partition, cp.items)]
       \/ cp' = Fail("ErrRead")
    /\ UNCHANGED <<disklabel, img, parts, host, snap, total, lim>>

\* mmd run with exec_cmd!: a failure reported by mmd ends the call as well.
MmdExecCmd ==
    /\ cp.pc = "mmd"
    /\ LET n == cp.partition_num
           d == Head(cp.dirs)
           ran == Log(cnt, "mkdir", cp.partition, Head(cp.items).in_file)
           on == [cp EXCEPT !.dirs = Tail(@),
                            !.pc = IF Tail(cp.dirs) = <<>> THEN "mcopy" ELSE "mmd"]
       IN \/ /\ cp' = Fail("ErrMmd")
             /\ cnt' = [ran EXCEPT !.calls = @ + 1, !.mmd = "not run"]
             /\ UNCHANGED parts
          \/ /\ cp' = Fail("ErrMmd")
             /\ cnt' = [ran EXCEPT !.calls = @ + 1, !.mmd = "failed"]
             /\ UNCHANGED parts
          \/ /\ Usable(n) /\ CanMmd(PartFs(n), d)
             /\ parts' = WithFs(n, [PartFs(n) EXCEPT !.dirs = @ \cup {d}])
             /\ cnt' = [ran EXCEPT !.calls = @ + 1, !.mmd = "done"]
             /\ cp' = on
    /\ UNCHANGED <<disklabel, img, host, snap, total, lim>>
\* functions.rs:265-276: one mmd per directory of the path; try_exec_cmd!
\* (functions.rs:151-163) returns the error when status() fails, that is when
\* mmd cannot be run, and only warns when mmd exits with a failure.
Mmd ==
    /\ cp.pc = "mmd"
    /\ LET n == cp.partition_num
           d == Head(cp.dirs)
           ran == Log(cnt, "mkdir", cp.partition, Head(cp.items).in_file)
           on == [cp EXCEPT !.dirs = Tail(@),
                            !.pc = IF Tail(cp.dirs) = <<>> THEN "mcopy" ELSE "mmd"]
       IN \/ /\ cp' = Fail("ErrMmd")        \* status() failed
             /\ cnt' = [ran EXCEPT !.calls = @ + 1, !.mmd = "not run"]
             /\ UNCHANGED parts
          \/ /\ cp' = on                    \* mmd exited non-zero: warn!
             /\ cnt' = [ran EXCEPT !.calls = @ + 1, !.mmd = "failed",
                                   !.warns = @ + 1]
             /\ UNCHANGED parts
          \/ /\ Usable(n) /\ CanMmd(PartFs(n), d)
             /\ parts' = WithFs(n, [PartFs(n) EXCEPT !.dirs = @ \cup {d}])
             /\ cnt' = [ran EXCEPT !.calls = @ + 1, !.mmd = "done"]
             /\ cp' = on
    /\ UNCHANGED <<disklabel, img, host, snap, total, lim>>

\* The request after this one, or the write-back.
NextItem ==
    [cp EXCEPT !.items = Tail(@),
               !.pc = FilePc(cp.partition, Tail(cp.items)),
               !.dirs = FileDirs(cp.partition, Tail(cp.items))]

\* functions.rs:278-285: mcopy -o -i partition_file in_file ::out_file
Mcopy ==
    /\ cp.pc = "mcopy"
    /\ cnt' = Log(Called, "copy", cp.partition, Head(cp.items).in_file)
    /\ LET n == cp.partition_num
           r == Head(cp.items)
       IN \/ /\ cp' = Fail("ErrMcopy")
             /\ UNCHANGED parts
          \/ /\ Usable(n) /\ CanCopyIn(PartFs(n), r.out_file)
             /\ parts' = WithFs(n, CopyIn(PartFs(n), r.in_file, r.out_file))
             /\ cp' = NextItem
    /\ UNCHANGED <<disklabel, img, host, snap, total, lim>>

\* functions.rs:287-289: e2mkdir partition_file:dir_path
E2mkdirStep ==
    /\ cp.pc = "e2mkdir"
    /\ cnt' = Log(Called, "mkdir", cp.partition, Head(cp.items).in_file)
    /\ LET n == cp.partition_num
           r == Head(cp.items)
       IN \/ /\ cp' = Fail("ErrE2mkdir")
             /\ UNCHANGED parts
          \/ /\ Usable(n)
             /\ parts' = WithFs(n, E2mkdir(PartFs(n), Parent(r.out_file)))
             /\ cp' = [cp EXCEPT !.pc = "e2cp"]
    /\ UNCHANGED <<disklabel, img, host, snap, total, lim>>

\* functions.rs:291-294: e2cp in_file partition_file:out_file.  e2cp can
\* fail to copy and still exit 0 (functions.rs:348).
E2cpIn ==
    /\ cp.pc = "e2cp"
    /\ cnt' = Log(Called, "copy", cp.partition, Head(cp.items).in_file)
    /\ LET n == cp.partition_num
           r == Head(cp.items)
       IN \/ /\ cp' = Fail("ErrE2cp")
             /\ UNCHANGED parts
          \/ /\ cp' = NextItem              \* nothing copied, exit status 0
             /\ UNCHANGED parts
          \/ /\ Usable(n) /\ CanCopyIn(PartFs(n), r.out_file)
             /\ parts' = WithFs(n, CopyIn(PartFs(n), r.in_file, r.out_file))
             /\ cp' = NextItem
    /\ UNCHANGED <<disklabel, img, host, snap, total, lim>>

\* write_partition, functions.rs:460-473: dd from the scratch file into the
\* image; a failing dd may have written some of the sectors.
WriteDd ==
    /\ cp.pc = "write"
    /\ LET n == cp.partition_num
           data == parts[n].data
           len == Min(Len(data), cp.partition_offset[2])
       IN /\ cnt' = Log([cnt EXCEPT !.write[cp.partition] = @ + 1,
                                     !.ddOut = @ + 1, !.calls = @ + 1],
                         "write", cp.partition, 0)
          /\ \/ /\ parts[n].exists
                /\ img' = DdWrite(img, data, cp.partition_offset[1], len)
                /\ cp' = [cp EXCEPT !.pc = "fallocate"]
                /\ snap' = [snap EXCEPT !.wrote[cp.partition] = data]
             \/ /\ \E k \in 0..(len - 1) :
                      img' = DdWrite(img, data, cp.partition_offset[1], k)
                /\ cp' = Fail("ErrWrite")
                /\ UNCHANGED snap
             \/ /\ UNCHANGED <<img, snap>>
                /\ cp' = Fail("ErrWrite")
    /\ UNCHANGED <<disklabel, parts, host, total, lim>>

\* write_partition, functions.rs:475-477: fallocate -d image
WriteFallocate ==
    /\ cp.pc = "fallocate"
    /\ cnt' = Called
    /\ \/ cp' = [cp EXCEPT !.pc = "write_sync"]
       \/ cp' = Fail("ErrWrite")
    /\ UNCHANGED <<disklabel, img, parts, host, snap, total, lim>>

\* write_partition, functions.rs:479-482: sync, then the next partition
WriteSync ==
    /\ cp.pc = "write_sync"
    /\ cnt' = Called
    /\ \/ cp' = [cp EXCEPT !.pc = "loop"]
       \/ cp' = Fail("ErrWrite")
    /\ UNCHANGED <<disklabel, img, parts, host, snap, total, lim>>

\* copy_from_image(file_copy_params, image_file), functions.rs:305-312
CopyFromCall ==
    /\ cp.pc \in {"idle", "done"}
    /\ lim.from
    /\ total.calls < MaxCalls
    /\ \E n \in 0..Min(MaxReqs, lim.reqs - total.reqs) :
       \E rs \in [1..n -> CopyFromParams] :
          /\ cp' = [Idle EXCEPT !.pc = "loop", !.op = "from", !.reqs = rs,
                                !.rest = rs]
          /\ total' = [calls |-> total.calls + 1, reqs |-> total.reqs + n]
    /\ cnt' = NoCounts
    /\ snap' = NewSnap
    /\ UNCHANGED <<disklabel, img, parts, host, lim>>

\* functions.rs:314-319: the next request, in request order, and
\* get_partition_num for it
FromNext ==
    /\ cp.pc = "loop" /\ cp.op = "from"
    /\ cp.rest # <<>>
    /\ LET param == Head(cp.rest)
           entered == [cp EXCEPT !.partition = param.partition,
                                    !.partition_type = "none"]
       IN IF param.partition \in {"boot", "rootA"}
          THEN /\ cp' = [entered EXCEPT !.pc = "offset",
                            !.partition_num = get_partition_num(param.partition, "")]
               /\ cnt' = Log(cnt, "num", param.partition, 0)
          ELSE /\ cnt' = Log(Called, "num", param.partition, 0)
               /\ \E out \in {"spawn failed", "", disklabel} :
                     IF out = "spawn failed"
                     THEN cp' = [entered EXCEPT !.pc = "done", !.result = "ErrSpawn"]
                     ELSE IF get_partition_num(param.partition, out) = 0
                     THEN cp' = [entered EXCEPT !.pc = "done", !.result = "ErrNum",
                                    !.partition_type = out]
                     ELSE cp' = [entered EXCEPT !.pc = "offset",
                                    !.partition_type = out,
                                    !.partition_num = get_partition_num(param.partition, out)]
    /\ UNCHANGED <<disklabel, img, parts, host, snap, total, lim>>

\* functions.rs:369: Ok(()) after the last request
FromFinish ==
    /\ cp.pc = "loop" /\ cp.op = "from"
    /\ cp.rest = <<>>
    /\ cp' = [cp EXCEPT !.pc = "done", !.result = "Ok"]
    /\ UNCHANGED <<disklabel, img, parts, host, cnt, snap, total, lim>>

\* A check that finds the file whatever the working directory holds.
tmp_out_file_any(h, tmp) == TRUE
\* tmp_out_file.try_exists().is_ok_and(|exists| exists), functions.rs:349-352
tmp_out_file_exists(h, tmp) == h[tmp] # 0

\* functions.rs:330-353: mcopy out of a boot partition; e2cp out of the
\* others, then the check that the file e2cp was to write exists.
CopyOut ==
    /\ cp.pc = "copy_out"
    /\ LET n == cp.partition_num
           param == Head(cp.rest)
           tmp == TmpOutFile(param)
           found == Usable(n) /\ PartFs(n).files[param.in_file] # 0
           ran(st) == [cnt EXCEPT !.calls = @ + 1, !.e2cp = st]
       IN IF param.partition = "boot"
          THEN /\ cnt' = Called
               /\ \/ /\ cp' = Fail("ErrMcopy")
                     /\ UNCHANGED host
                  \/ /\ found
                     /\ host' = [host EXCEPT ![tmp] = PartFs(n).files[param.in_file]]
                     /\ cp' = [cp EXCEPT !.pc = "mkdir_dest"]
          ELSE \/ /\ cp' = Fail("ErrE2cp")
                  /\ cnt' = ran("failed")
                  /\ UNCHANGED host
               \/ /\ UNCHANGED host         \* nothing copied, exit status 0
                  /\ cnt' = ran("done")
                  /\ cp' = IF tmp_out_file_exists(host, tmp)
                           THEN [cp EXCEPT !.pc = "mkdir_dest"]
                           ELSE Fail("ErrVerify")
               \/ /\ found
                  /\ cnt' = ran("done")
                  /\ host' = [host EXCEPT ![tmp] = PartFs(n).files[param.in_file]]
                  /\ cp' = IF tmp_out_file_exists(host', tmp)
                           THEN [cp EXCEPT !.pc = "mkdir_dest"]
                           ELSE Fail("ErrVerify")
    /\ UNCHANGED <<disklabel, img, parts, snap, total, lim>>

\* functions.rs:356-361: fs::create_dir_all(parent of out_file)
CreateDirAll ==
    /\ cp.pc = "mkdir_dest"
    /\ cnt' = Called
    /\ \/ cp' = [cp EXCEPT !.pc = "rename"]
       \/ cp' = Fail("ErrCreateDir")
    /\ UNCHANGED <<disklabel, img, parts, host, snap, total, lim>>

\* functions.rs:362-367: fs::rename(tmp_out_file, out_file), then the next
\* request
Rename ==
    /\ cp.pc = "rename"
    /\ cnt' = Called
    /\ LET param == Head(cp.rest)
           tmp == TmpOutFile(param)
       IN \/ /\ cp' = Fail("ErrRename")
             /\ UNCHANGED host
          \/ /\ host[tmp] # 0
             /\ host' = [p \in HostPaths |->
                            IF p = param.out_file THEN host[tmp]
                            ELSE IF p = tmp THEN 0 ELSE host[p]]
             /\ cp' = [cp EXCEPT !.pc = "loop", !.rest = Tail(@)]
    /\ UNCHANGED <<disklabel, img, parts, snap, total, lim>>

(***************************************************************************)
(* PART 3 - file/functions.rs, the request types                           *)
(***************************************************************************)

\* pieces of text in one request string
MaxLen == 6

VARIABLES
    rq          \* the FileCopyToParams being made: how, from what, the result

parseVars == <<rq>>

\* A string is a sequence of pieces of text; "," and ":" are the separators
\* and no other piece holds one.  "in.txt,boot:/etc/foo" is
\* <<"in.txt", ",", "boot", ":", "/", "etc/foo">>.
Separators == {",", ":"}
Tokens == {"in.txt", "boot", "/", "etc/foo"} \cup Separators
Strings == UNION {[1..n -> Tokens] : n \in 0..MaxLen}
\* The paths of the current directory that try_exists() finds: a file, and
\* the root directory.
HostFiles == {<<"in.txt">>, <<"/">>}
\* Paths handed to FileCopyToParams::new
NewPaths == {<<"in.txt">>, <<"etc/foo">>, <<"/", "etc/foo">>}

\* s.matches(c).count() ignoring what c is
matches_once(s, c) == 1
\* s.matches(c).count(), functions.rs:62
matches(s, c) == Cardinality({i \in DOMAIN s : s[i] = c})

\* s.split(&[',', ':']).collect(), functions.rs:66: the texts between the
\* separators, empty ones too, in the order they stand in.
RECURSIVE split(_)
split(s) ==
    IF \A i \in DOMAIN s : s[i] \notin Separators THEN <<s>>
    ELSE LET i == CHOOSE k \in DOMAIN s :
                     /\ s[k] \in Separators
                     /\ \A m \in 1..(k - 1) : s[m] \notin Separators
         IN <<SubSeq(s, 1, i - 1)>> \o split(SubSeq(s, i + 1, Len(s)))

\* Partition::from_str, functions.rs:22-30; "Err" is the bail!
PartitionFromStr(input) ==
    IF input \in {<<"boot">>, <<"rootA">>, <<"cert">>, <<"factory">>}
    THEN input[1] ELSE "Err"
\* in_file.try_exists().is_ok_and(|exists| exists), functions.rs:75
try_exists(path) == path \in HostFiles
\* A check that takes every path for an absolute one.
is_absolute_any(path) == TRUE
\* Path::is_absolute, functions.rs:79
is_absolute(path) == path # <<>> /\ path[1] = "/"

NoParams == [ok |-> FALSE, err |-> "none", in_file |-> <<>>, partition |-> "none",
             out_file |-> <<>>]
ParamsErr(msg) == [NoParams EXCEPT !.err = msg]
\* FileCopyToParams::new, functions.rs:42-52
new(in_file, partition, out_file) ==
    [ok |-> TRUE, err |-> "none", in_file |-> in_file, partition |-> partition,
     out_file |-> out_file]
\* FileCopyToParams::from_str, functions.rs:58-88
from_str(s) ==
    IF ~(matches(s, ",") = 1 /\ matches(s, ":") = 1)
    THEN ParamsErr("format not matched")
    ELSE LET v == split(s)
         IN IF Len(v) # 3 THEN ParamsErr("format not matched")
            ELSE IF PartitionFromStr(v[2]) = "Err" THEN ParamsErr("unknown partition")
            ELSE IF ~try_exists(v[1]) THEN ParamsErr("in-file-path doesn't exist")
            ELSE IF ~is_absolute(v[3])
                 THEN ParamsErr("out-file-path isn't an absolute path")
            ELSE new(v[1], PartitionFromStr(v[2]), v[3])

NoRequest == [pc |-> "idle", how |-> "none", s |-> <<>>, res |-> NoParams]
ParseIdle == rq = NoRequest

\* "...".parse::<FileCopyToParams>(): from_str on a request string.  Nothing
\* but the host's file system is looked at.
FromStrCall ==
    /\ rq.pc = "idle"
    /\ \E s \in Strings :
          rq' = [pc |-> "done", how |-> "from_str", s |-> s, res |-> from_str(s)]

\* FileCopyToParams::new(in_file, partition, out_file), the other public way
\* to a request
NewCall ==
    /\ rq.pc = "idle"
    /\ \E in_file \in NewPaths, partition \in Partition, out_file \in NewPaths :
          rq' = [pc |-> "done", how |-> "new", s |-> <<>>,
                 res |-> new(in_file, partition, out_file)]

(***************************************************************************)
(* PART 4 - validators/image.rs, XzGenerator::get_level                    *)
(***************************************************************************)

\* pieces of text in the value of XZ_ENCODER_PRESET
MaxPreset == 3

VARIABLES
    xz          \* one get_level call: the environment it reads and its result

\* The pieces a value is made of: digits, signs, a blank and a letter.
PresetPieces == {"0", "1", "8", "9", "+", "-", " ", "x"}
PresetTexts == UNION {[1..n -> PresetPieces] : n \in 0..MaxPreset}
\* XZ_ENCODER_PRESET: not set, set to something that is not unicode, or text
Unset == [kind |-> "unset", text |-> <<>>]
NotUnicode == [kind |-> "not unicode", text |-> <<>>]
PresetEnvs == {Unset, NotUnicode} \cup {[kind |-> "text", text |-> t] : t \in PresetTexts}

\* the decimal digits of a piece, <<>> for a piece that is not digits
DigitsOf(piece) ==
    CASE piece = "0" -> <<0>>
      [] piece = "1" -> <<1>>
      [] piece = "8" -> <<8>>
      [] piece = "9" -> <<9>>
      [] OTHER -> <<>>
RECURSIVE Decimal(_)
Decimal(text) ==
    IF text = <<>> THEN <<>> ELSE DigitsOf(Head(text)) \o Decimal(Tail(text))
RECURSIVE ValueOf(_)
ValueOf(digits) ==
    IF digits = <<>> THEN 0
    ELSE 10 * ValueOf(SubSeq(digits, 1, Len(digits) - 1)) + digits[Len(digits)]
\* str::parse::<u32>: an optional '+', then one digit or more and nothing
\* else; -1 stands for the Err.  The values of up to MaxPreset digits all
\* fit u32.
ParseU32(text) ==
    LET body == IF text # <<>> /\ Head(text) = "+" THEN Tail(text) ELSE text
    IN IF body = <<>> \/ \E i \in DOMAIN body : DigitsOf(body[i]) = <<>>
       THEN -1
       ELSE ValueOf(Decimal(body))

\* A range that takes every level up to 99.
range_up_to_99(level) == level >= 0 /\ level < 100
\* let range = 0..9; range.contains(&level), image.rs:57 and 63
range_contains(level) == level >= 0 /\ level < 9

\* XzGenerator::get_level, image.rs:56-69
get_level(env) ==
    LET var == IF env.kind = "text" THEN env.text ELSE <<"9">>
        level == IF ParseU32(var) = -1 THEN 9 ELSE ParseU32(var)
    IN IF range_contains(level) THEN level ELSE 9

XzIdle == xz = [pc |-> "done", env |-> Unset, level |-> 9]
XzInit == xz \in {[pc |-> "start", env |-> e, level |-> -1] : e \in PresetEnvs}

\* one call of get_level, from compress or decompress (image.rs:31, 46)
GetLevel ==
    /\ xz.pc = "start"
    /\ xz' = [xz EXCEPT !.pc = "done", !.level = get_level(xz.env)]

(***************************************************************************)
(* PART 5 - file/functions.rs, the fdisk | grep | awk pipelines            *)
(***************************************************************************)

\* lines fdisk prints
MaxLines == 3
\* lines a pipe holds before a write to it blocks
PipeCap == 1

VARIABLES
    pipe        \* one pipeline: the caller's position, the three processes,
                \* what fdisk has left to print, the content of the pipes
                \* and the output collected

\* A line of fdisk is one that grep's pattern selects, or another.
Lines == {"hit", "miss"}
Outputs == UNION {[1..n -> Lines] : n \in 0..MaxLines}
Stages == {"fdisk", "grep", "awk"}

PipeIdle ==
    pipe = [pc |-> "done", result |-> "none", lines |-> <<>>, left |-> <<>>,
            st |-> [c \in Stages |-> "none"],
            p1 |-> <<>>, p2 |-> <<>>, p3 |-> <<>>, out |-> <<>>]
PipeInit ==
    pipe \in {[pc |-> "fdisk", result |-> "none", lines |-> o, left |-> o,
               st |-> [c \in Stages |-> "none"],
               p1 |-> <<>>, p2 |-> <<>>, p3 |-> <<>>, out |-> <<>>] :
                 o \in Outputs}

\* A handle that is only there once the stage has exited.
stdout_after_exit(stage) == pipe.st[stage] = "exit"
\* exec_pipe_cmd!, functions.rs:167-176: spawn() returns with the child
\* running and res.stdout is its output handle; nothing waits for the child.
stdout_of(stage) == pipe.st[stage] # "none"

\* `?` on a spawn: the function returns, and the handles and Commands it
\* holds are dropped.
PipeFail == [pipe EXCEPT !.pc = "done", !.result = "Err"]
\* The read end of a pipe is open while the reading stage runs, and while
\* the caller holds the handle: from the spawn of the stage before, inside
\* the Command of the reading stage, up to the return of the function.
ReadEndOpen(reader) == pipe.st[reader] = "run" \/ pipe.pc # "done"

\* functions.rs:376-378 / 403-409: exec_pipe_cmd!(fdisk)
SpawnFdisk ==
    /\ pipe.pc = "fdisk"
    /\ \/ pipe' = PipeFail
       \/ pipe' = [pipe EXCEPT !.pc = "grep", !.st["fdisk"] = "run"]

\* functions.rs:380-382 / 411-413: exec_pipe_cmd!(grep, fdisk_out)
SpawnGrep ==
    /\ pipe.pc = "grep"
    /\ stdout_of("fdisk")
    /\ \/ pipe' = PipeFail
       \/ pipe' = [pipe EXCEPT !.pc = "awk", !.st["grep"] = "run"]

\* functions.rs:384-386 / 415-418: exec_pipe_cmd_finnish!(awk, grep_out),
\* the spawn
SpawnAwk ==
    /\ pipe.pc = "awk"
    /\ stdout_of("grep")
    /\ \/ pipe' = PipeFail
       \/ pipe' = [pipe EXCEPT !.pc = "collect", !.st["awk"] = "run"]

\* fdisk prints a line: the write blocks while the pipe is full, and ends
\* fdisk (SIGPIPE) when nothing holds the read end
FdiskWrite ==
    /\ pipe.st["fdisk"] = "run" /\ pipe.left # <<>>
    /\ IF ReadEndOpen("grep")
       THEN /\ Len(pipe.p1) < PipeCap
            /\ pipe' = [pipe EXCEPT !.p1 = Append(@, Head(pipe.left)),
                                    !.left = Tail(@)]
       ELSE pipe' = [pipe EXCEPT !.st["fdisk"] = "exit"]

\* fdisk has printed everything and exits: its end of the pipe is closed
FdiskExit ==
    /\ pipe.st["fdisk"] = "run" /\ pipe.left = <<>>
    /\ pipe' = [pipe EXCEPT !.st["fdisk"] = "exit"]

\* grep reads a line and prints it when the pattern selects it
GrepLine ==
    /\ pipe.st["grep"] = "run" /\ pipe.p1 # <<>>
    /\ IF Head(pipe.p1) = "miss"
       THEN pipe' = [pipe EXCEPT !.p1 = Tail(@)]
       ELSE IF ReadEndOpen("awk")
       THEN /\ Len(pipe.p2) < PipeCap
            /\ pipe' = [pipe EXCEPT !.p1 = Tail(@),
                                    !.p2 = Append(@, Head(pipe.p1))]
       ELSE pipe' = [pipe EXCEPT !.st["grep"] = "exit"]

\* grep reads the end of its input and exits
GrepExit ==
    /\ pipe.st["grep"] = "run" /\ pipe.p1 = <<>>
    /\ pipe.st["fdisk"] = "exit"
    /\ pipe' = [pipe EXCEPT !.st["grep"] = "exit"]

\* awk reads a line and prints its fields
AwkLine ==
    /\ pipe.st["awk"] = "run" /\ pipe.p2 # <<>>
    /\ Len(pipe.p3) < PipeCap
    /\ pipe' = [pipe EXCEPT !.p2 = Tail(@), !.p3 = Append(@, "row")]

\* awk reads the end of its input and exits
AwkExit ==
    /\ pipe.st["awk"] = "run" /\ pipe.p2 = <<>>
    /\ pipe.st["grep"] = "exit"
    /\ pipe' = [pipe EXCEPT !.st["awk"] = "exit"]

\* wait_with_output, functions.rs:207: the caller reads awk's output
Collect ==
    /\ pipe.pc = "collect" /\ pipe.p3 # <<>>
    /\ pipe' = [pipe EXCEPT !.p3 = Tail(@), !.out = Append(@, Head(pipe.p3))]

\* wait_with_output, functions.rs:207-216: the end of awk's output, and awk
\* has exited
Collected ==
    /\ pipe.pc = "collect" /\ pipe.p3 = <<>>
    /\ pipe.st["awk"] = "exit"
    /\ pipe' = [pipe EXCEPT !.pc = "done", !.result = "Ok"]

\* some step of the caller or of a process
PipeStep ==
    \/ SpawnFdisk \/ SpawnGrep \/ SpawnAwk
    \/ FdiskWrite \/ FdiskExit \/ GrepLine \/ GrepExit
    \/ AwkLine \/ AwkExit \/ Collect \/ Collected

(***************************************************************************)
(* PART 6 - file/functions.rs, two copy_to_image calls at the same time    *)
(***************************************************************************)

\* copy_to_image calls running at once, each with one request for the same
\* partition of the same image
MaxProcs == 2

VARIABLES
    race        \* the partition's files in the image, the files of the
                \* working directory, and each call's request, position and
                \* result

Procs == 1..MaxProcs
RaceFiles == {"a", "b"}
\* The body of a file that was in the image before the calls; call p copies a
\* file with body p.
RaceOld == MaxProcs + 1
RaceFs == [RaceFiles -> {0, RaceOld}]
OwnNames == <<"wd/1.img.1", "wd/1.img.2", "wd/1.img.3">>
RaceNames == {"wd/1.img"} \cup {OwnNames[p] : p \in Procs}
NoScratch == [exists |-> FALSE, fs |-> [f \in RaceFiles |-> 0]]

\* A scratch file name of the call's own.
partition_file_own(p) == OwnNames[p]
\* functions.rs:241-246: working_dir joined with "<partition_num>.img", the
\* same for every call on the image
partition_file(p) == "wd/1.img"

RaceIdle ==
    race = [img |-> [f \in RaceFiles |-> 0],
            dir |-> [n \in RaceNames |-> NoScratch],
            req |-> [p \in Procs |-> "a"],
            pc |-> [p \in Procs |-> "done"],
            result |-> [p \in Procs |-> "none"]]
\* Both calls are about to start; the scratch file may be there from an
\* earlier call.
RaceInit ==
    race \in {[img |-> i,
               dir |-> [n \in RaceNames |->
                           IF n = "wd/1.img" THEN d ELSE NoScratch],
               req |-> r,
               pc |-> [p \in Procs |-> "check"],
               result |-> [p \in Procs |-> "none"]] :
                 i \in RaceFs, r \in [Procs -> RaceFiles],
                 d \in {NoScratch} \cup {[exists |-> TRUE, fs |-> f] : f \in RaceFs}}

RaceFail(p) == [race EXCEPT !.pc[p] = "done", !.result[p] = "Err"]

\* read_partition, functions.rs:440-442: try_exists() on the scratch file
RaceCheck(p) ==
    /\ race.pc[p] = "check"
    /\ race' = [race EXCEPT !.pc[p] =
                   IF race.dir[partition_file(p)].exists THEN "edit" ELSE "dd"]

\* read_partition, functions.rs:443-457: dd makes the scratch file from the
\* image
RaceExtract(p) ==
    /\ race.pc[p] = "dd"
    /\ \/ race' = RaceFail(p)
       \/ race' = [race EXCEPT !.pc[p] = "edit",
                      !.dir[partition_file(p)] = [exists |-> TRUE, fs |-> race.img]]

\* functions.rs:254-296: the request's file is copied into the scratch file
RaceEdit(p) ==
    /\ race.pc[p] = "edit"
    /\ \/ race' = RaceFail(p)
       \/ /\ race.dir[partition_file(p)].exists
          /\ race' = [race EXCEPT !.pc[p] = "write",
                         !.dir[partition_file(p)].fs[race.req[p]] = p]

\* write_partition, functions.rs:460-483: dd puts the scratch file into the
\* image; Ok(()) at functions.rs:302
RaceWrite(p) ==
    /\ race.pc[p] = "write"
    /\ \/ race' = RaceFail(p)
       \/ /\ race.dir[partition_file(p)].exists
          /\ race' = [race EXCEPT !.pc[p] = "done", !.result[p] = "Ok",
                         !.img = race.dir[partition_file(p)].fs]

RaceStep(p) == RaceCheck(p) \/ RaceExtract(p) \/ RaceEdit(p) \/ RaceWrite(p)

(***************************************************************************)
(* The specifications                                                      *)
(***************************************************************************)

\* The compression wrapper at rest, for the behaviours of the copy engine.
ShimIdle ==
    /\ files = [p \in ShimPaths |-> NoFile]
    /\ files0 = files
    /\ shPc = "done"
    /\ elem = 0
    /\ magic = "none"
    /\ success = "none"
    /\ shResult = "none"
    /\ shRuns = MaxShimRuns
    /\ actionArg = <<>>
    /\ actionWrote = FALSE
    /\ actionRes = "none"
    /\ removed = "none"
    /\ nAction = 0
    /\ nDecompress = 0
    /\ nCompress = 0
    /\ nRemove = 0

\* The copy engine at rest, for the behaviours of the compression wrapper.
CopyIdle ==
    /\ disklabel = "gpt"
    /\ img = NewImage
    /\ parts = [n \in PartNums |-> NoPart]
    /\ host = [p \in HostPaths |-> 0]
    /\ cp = Idle
    /\ cnt = NoCounts
    /\ snap = NewSnap
    /\ total = [calls |-> 0, reqs |-> 0]
    /\ lim = [reqs |-> MaxTotal, from |-> FALSE]

\* get_level, a pipeline and the two calls at rest
auxVars == <<xz, pipe, race>>
AuxIdle == XzIdle /\ PipeIdle /\ RaceIdle

vars == <<shimVars, copyVars, parseVars, auxVars>>

Init == ShimInit /\ CopyIdle /\ ParseIdle /\ AuxIdle

Next ==
    \/ Detect /\ UNCHANGED <<copyVars, parseVars, auxVars>>
    \/ Decompress /\ UNCHANGED <<copyVars, parseVars, auxVars>>
    \/ Invoke /\ UNCHANGED <<copyVars, parseVars, auxVars>>
    \/ Recompress /\ UNCHANGED <<copyVars, parseVars, auxVars>>
    \/ Cleanup /\ UNCHANGED <<copyVars, parseVars, auxVars>>
    \/ Passthrough /\ UNCHANGED <<copyVars, parseVars, auxVars>>
    \/ ShimCall /\ UNCHANGED <<copyVars, parseVars, auxVars>>

Spec == Init /\ [][Next]_vars

InitCopy == CopyInit /\ ShimIdle /\ ParseIdle /\ AuxIdle

NextCopy ==
    \/ CopyToCall /\ UNCHANGED <<shimVars, parseVars, auxVars>>
    \/ ToNextPartition /\ UNCHANGED <<shimVars, parseVars, auxVars>>
    \/ ToFinish /\ UNCHANGED <<shimVars, parseVars, auxVars>>
    \/ GetPartitionOffset /\ UNCHANGED <<shimVars, parseVars, auxVars>>
    \/ ReadPartition /\ UNCHANGED <<shimVars, parseVars, auxVars>>
    \/ ReadSync /\ UNCHANGED <<shimVars, parseVars, auxVars>>
    \/ Mmd /\ UNCHANGED <<shimVars, parseVars, auxVars>>
    \/ Mcopy /\ UNCHANGED <<shimVars, parseVars, auxVars>>
    \/ E2mkdirStep /\ UNCHANGED <<shimVars, parseVars, auxVars>>
    \/ E2cpIn /\ UNCHANGED <<shimVars, parseVars, auxVars>>
    \/ WriteDd /\ UNCHANGED <<shimVars, parseVars, auxVars>>
    \/ WriteFallocate /\ UNCHANGED <<shimVars, parseVars, auxVars>>
    \/ WriteSync /\ UNCHANGED <<shimVars, parseVars, auxVars>>

SpecCopy == InitCopy /\ [][NextCopy]_vars

\* copy_to_image and copy_from_image calls, on a host whose working and
\* destination directories may hold files from before.
InitFrom ==
    /\ FreshImage
    /\ host \in [HostPaths -> {0, OldBody}]
    /\ cp = Idle
    /\ cnt = NoCounts
    /\ snap = NewSnap
    /\ total = [calls |-> 0, reqs |-> 0]
    /\ lim = [reqs |-> MaxFromTotal, from |-> TRUE]
    /\ ShimIdle /\ ParseIdle /\ AuxIdle

NextFrom ==
    \/ NextCopy
    \/ CopyFromCall /\ UNCHANGED <<shimVars, parseVars, auxVars>>
    \/ FromNext /\ UNCHANGED <<shimVars, parseVars, auxVars>>
    \/ FromFinish /\ UNCHANGED <<shimVars, parseVars, auxVars>>
    \/ CopyOut /\ UNCHANGED <<shimVars, parseVars, auxVars>>
    \/ CreateDirAll /\ UNCHANGED <<shimVars, parseVars, auxVars>>
    \/ Rename /\ UNCHANGED <<shimVars, parseVars, auxVars>>

SpecFrom == InitFrom /\ [][NextFrom]_vars

\* Requests made from request strings and by FileCopyToParams::new, before
\* any copy_to_image call.
InitParse == ParseIdle /\ ShimIdle /\ CopyIdle /\ AuxIdle

NextParse ==
    \/ FromStrCall /\ UNCHANGED <<shimVars, copyVars, auxVars>>
    \/ NewCall /\ UNCHANGED <<shimVars, copyVars, auxVars>>

SpecParse == InitParse /\ [][NextParse]_vars

\* XzGenerator::get_level on its own, for every value of the variable.
Rest == ShimIdle /\ CopyIdle /\ ParseIdle
restVars == <<shimVars, copyVars, parseVars>>

InitXz == XzInit /\ PipeIdle /\ RaceIdle /\ Rest

NextXz == GetLevel /\ UNCHANGED <<restVars, pipe, race>>

SpecXz == InitXz /\ [][NextXz]_vars

\* One pipeline.  The caller and the three processes are scheduled by the
\* operating system: a step that stays possible is taken at last.
InitPipe == PipeInit /\ XzIdle /\ RaceIdle /\ Rest

NextPipe ==
    \/ SpawnFdisk /\ UNCHANGED <<restVars, xz, race>>
    \/ SpawnGrep /\ UNCHANGED <<restVars, xz, race>>
    \/ SpawnAwk /\ UNCHANGED <<restVars, xz, race>>
    \/ FdiskWrite /\ UNCHANGED <<restVars, xz, race>>
    \/ FdiskExit /\ UNCHANGED <<restVars, xz, race>>
    \/ GrepLine /\ UNCHANGED <<restVars, xz, race>>
    \/ GrepExit /\ UNCHANGED <<restVars, xz, race>>
    \/ AwkLine /\ UNCHANGED <<restVars, xz, race>>
    \/ AwkExit /\ UNCHANGED <<restVars, xz, race>>
    \/ Collect /\ UNCHANGED <<restVars, xz, race>>
    \/ Collected /\ UNCHANGED <<restVars, xz, race>>

SpecPipe == InitPipe /\ [][NextPipe]_vars /\ WF_vars(NextPipe)

\* Two copy_to_image calls on one image, their steps in any order.
InitRace == RaceInit /\ XzIdle /\ PipeIdle /\ Rest

NextRace ==
    \/ \E p \in Procs : RaceCheck(p) /\ UNCHANGED <<restVars, xz, pipe>>
    \/ \E p \in Procs : RaceExtract(p) /\ UNCHANGED <<restVars, xz, pipe>>
    \/ \E p \in Procs : RaceEdit(p) /\ UNCHANGED <<restVars, xz, pipe>>
    \/ \E p \in Procs : RaceWrite(p) /\ UNCHANGED <<restVars, xz, pipe>>

SpecRace == InitRace /\ [][NextRace]_vars

(***************************************************************************)
(* Claims about validate_and_decompress_image (specification Spec)         *)
(***************************************************************************)

image0 == files0["image"]
Compressed == elem # 0
Returned == shPc = "done"
\* x is what decoding the outer codec-c layer of y yields
IsDecompressionOf(x, c, y) ==
    /\ y.layers # <<>>
    /\ Head(y.layers) = Layer(c, TRUE)
    /\ x.layers = Tail(y.layers)
    /\ x.body = y.body
\* x and y decode (under codec c) to the same content
SameDecompression(x, y, c) ==
    /\ x.layers # <<>> /\ y.layers # <<>>
    /\ Head(x.layers) = Layer(c, TRUE) /\ Head(y.layers) = Layer(c, TRUE)
    /\ Tail(x.layers) = Tail(y.layers)
    /\ x.body = y.body

\* C1: after the call returns for an image detected as Xz, Bzip2 or Gzip, the
\* compression scratch file does not exist, on every exit path (success,
\* failed decompress, failed action, failed recompress), provided the delete
\* call itself did not fail.
C1_ScratchGoneOnEveryExit ==
    (Returned /\ Compressed /\ removed # "failed")
        => files[ScratchPath(elem)] = NoFile

\* C2: when the action or the recompression failed and deleting the scratch
\* file fails too, the call returns the earlier error, not the cleanup error.
C2_EarlierErrorNotMasked ==
    (Returned /\ Compressed /\ removed = "failed"
       /\ success \in {"ErrAction", "ErrRecompress"})
        => shResult = success

\* C3: when the action returns an error on a compressed image, recompression
\* is never attempted, and once the call has returned with the scratch file
\* deleted, the result is exactly the action's error and the scratch file is
\* gone.
C3_ActionErrorReported ==
    (Compressed /\ actionRes = "ErrAction")
        => /\ nCompress = 0
           /\ shPc # "recompress"
           /\ (Returned /\ removed = "ok")
                 => /\ shResult = "ErrAction"
                    /\ files[ScratchPath(elem)] = NoFile
C3_Witness ==
    /\ Returned /\ Compressed
    /\ actionRes = "ErrAction"
    /\ removed = "ok"
    /\ actionWrote

\* C4: a call on a compressed image that ends in an error from decompress,
\* the action or recompress leaves the image file with the content it had
\* before the call.
C4_ImageKeptOnError ==
    (Returned /\ Compressed
       /\ shResult \in {"ErrDecompress", "ErrAction", "ErrRecompress"})
        => files["image"] = image0

\* C8: for Xz, Bzip2 and Gzip alike, the action receives a scratch file whose
\* content is the decompression of the original image under the matched
\* codec; and a successful run whose action changed nothing leaves an image
\* that decompresses to the same content as before the call.
C8_ActionGetsDecompressedImage ==
    /\ (Compressed /\ actionArg # <<>>)
          => IsDecompressionOf(actionArg[2],
                               CodecOf(COMPRESSION_TABLE[elem].generator), image0)
    /\ (Returned /\ Compressed /\ shResult = "Ok" /\ ~actionWrote)
          => SameDecompression(files["image"], image0,
                               CodecOf(COMPRESSION_TABLE[elem].generator))

\* C9: after a successful call on an image detected as Xz, Bzip2 or Gzip, the
\* image on disk is still detected as the same codec and no compression
\* scratch file (*.tmp) is left.
C9_StillCompressedNoScratch ==
    (Returned /\ shResult = "Ok" /\ Lookup(MagicFile(image0)) # 0)
        => /\ Lookup(MagicFile(files["image"])) = Lookup(MagicFile(image0))
           /\ \A e \in Extensions : files[e] = NoFile
C9_Witness ==
    /\ Returned /\ shResult = "Ok"
    /\ Lookup(MagicFile(image0)) = 2
    /\ nCompress = 1 /\ removed = "ok"
    /\ actionWrote

\* C10: for an image whose description contains none of the known markers,
\* decompress and compress are never called, no temp file is created or
\* deleted, the action is invoked exactly once, with the original image path,
\* and its result is returned unchanged.
NoMarker(desc) ==
    /\ desc # "none"
    /\ \A i \in DOMAIN COMPRESSION_TABLE : ~Finds(desc, COMPRESSION_TABLE[i].marker)
C10_Passthrough ==
    NoMarker(magic)
        => /\ nDecompress = 0 /\ nCompress = 0 /\ nRemove = 0
           /\ \A e \in Extensions : files[e] = files0[e]
           /\ nAction <= 1
           /\ Returned
                 => /\ nAction = 1
                    /\ actionArg = <<"image", image0>>
                    /\ shResult = actionRes
C10_Witness ==
    /\ Returned /\ NoMarker(magic)
    /\ nAction = 1 /\ actionWrote
    /\ shResult = "ErrAction"

(***************************************************************************)
(* Claims about copy_to_image / copy_from_image (SpecCopy, SpecFrom)       *)
(***************************************************************************)

ToReturned == cp.op = "to" /\ cp.pc = "done"
FromReturned == cp.op = "from" /\ cp.pc = "done"
Touched == {cp.reqs[i].partition : i \in DOMAIN cp.reqs}
\* the partition number of a kind in this image
NumOf(k) == get_partition_num(k, disklabel)
\* the sectors Start..End of a partition, in the image
RangeOf(k) ==
    LET row == FdiskRows(disklabel)[NumOf(k)]
    IN SubSeq(img, row[1] + 1, row[2] + 1)
\* the same sectors, in the data a write-back wrote for the partition
WrittenRangeOf(k) ==
    LET row == FdiskRows(disklabel)[NumOf(k)]
    IN SubSeq(snap.wrote[k], 1, row[2] - row[1] + 1)

\* C5: a successful copy_to_image call with N requests touching P partition
\* kinds runs read_partition once and write_partition once for each touched
\* kind and for no other: P dd copies into the image, and P dd copies out of
\* it less the scratch files that existed before the call.
C5_OncePerPartition ==
    (ToReturned /\ cp.result = "Ok")
        => /\ \A k \in Partition :
                /\ cnt.read[k] = (IF k \in Touched THEN 1 ELSE 0)
                /\ cnt.write[k] = (IF k \in Touched THEN 1 ELSE 0)
           /\ cnt.ddOut = Cardinality(Touched)
           /\ cnt.ddIn = Cardinality({k \in Touched : ~snap.parts0[NumOf(k)].exists})
C5_Witness ==
    /\ ToReturned /\ cp.result = "Ok"
    /\ Len(cp.reqs) = 2 /\ Cardinality(Touched) = 1
    /\ cnt.ddIn = 1 /\ cnt.ddOut = 1

\* C6: a successful copy_to_image of host file F to partition P at path D,
\* followed by a successful copy_from_image of D from P, leaves at the
\* requested destination a file with the body of F.
C6_RoundTrip ==
    (FromReturned /\ cp.result = "Ok" /\ Len(cp.reqs) = 1)
        => \A i \in DOMAIN snap.prevTo :
              LET t == snap.prevTo[i]
                  r == cp.reqs[1]
              IN (/\ t.partition = r.partition
                  /\ t.out_file = r.in_file
                  /\ \A j \in (i + 1)..Len(snap.prevTo) :
                        ~(/\ snap.prevTo[j].partition = t.partition
                          /\ snap.prevTo[j].out_file = t.out_file))
                    => host[r.out_file] = t.in_file

\* C7: when a step of copy_to_image fails the call returns at once: the
\* partition being processed is not written back, and every partition that
\* was written back before the failure is still as written in the image.
C7_FailStopsAndKeeps ==
    (ToReturned /\ cp.result # "Ok")
        => /\ cp.partition \in Partition => snap.wrote[cp.partition] = <<>>
           /\ \A k \in Partition \ {cp.partition} :
                 snap.wrote[k] # <<>> => RangeOf(k) = WrittenRangeOf(k)
\* The second half of C7 alone.
C7_EarlierWritesStay ==
    (ToReturned /\ cp.result # "Ok")
        => \A k \in Partition \ {cp.partition} :
              snap.wrote[k] # <<>> => RangeOf(k) = WrittenRangeOf(k)

\* C11: get_partition_num gives 1 for boot and 2 for rootA without running
\* the fdisk pipeline, whatever the disklabel type; for factory and cert it
\* gives 4 and 5 on gpt, 5 and 6 on dos, and the "unhandled partition type"
\* error for every other disklabel type the pipeline prints.
PartitionNumTable ==
    {<<"factory", "gpt", 4>>, <<"factory", "dos", 5>>,
     <<"cert", "gpt", 5>>, <<"cert", "dos", 6>>}
NumResolved == cp.pc \notin {"idle", "loop"} /\ cp.partition \in Partition
C11_PartitionNumber ==
    NumResolved
        => /\ cp.partition = "boot"
                => cp.partition_num = 1 /\ cp.partition_type = "none"
           /\ cp.partition = "rootA"
                => cp.partition_num = 2 /\ cp.partition_type = "none"
           /\ cp.partition \in {"boot", "rootA"}
                => cp.result \notin {"ErrNum", "ErrSpawn"}
           /\ (cp.partition \in {"factory", "cert"} /\ cp.partition_type # "none")
                => IF \E t \in PartitionNumTable :
                         t[1] = cp.partition /\ t[2] = cp.partition_type
                   THEN /\ <<cp.partition, cp.partition_type, cp.partition_num>>
                              \in PartitionNumTable
                        /\ cp.result # "ErrNum"
                   ELSE cp.pc = "done" /\ cp.result = "ErrNum"
C11_Witness ==
    /\ cp.partition = "cert" /\ cp.partition_type = "sun"
    /\ cp.pc = "done" /\ cp.result = "ErrNum"
    /\ disklabel = "sun"

\* C12: when the scratch file of the partition exists, read_partition runs
\* neither dd nor sync, leaves the scratch files and the image as they are
\* and returns Ok: the call goes on with the step after the extraction.
C12_ExistingScratchIsKept ==
    [][(cp.pc = "read" /\ parts[cp.partition_num].exists)
          => /\ parts' = parts /\ img' = img
             /\ cnt'.calls = cnt.calls /\ cnt'.ddIn = cnt.ddIn
             /\ cnt'.read[cp.partition] = cnt.read[cp.partition] + 1
             /\ cp'.pc \notin {"read", "read_sync", "done"}
             /\ cp'.result = "none"]_vars
C12_Witness ==
    /\ cp.op = "to" /\ cp.pc \in {"mmd", "mcopy", "e2mkdir"}
    /\ cp.items = SelectSeq(cp.reqs, LAMBDA r : r.partition = cp.partition)
    /\ snap.parts0[cp.partition_num].exists
    /\ Len(snap.parts0[cp.partition_num].data) > 0
    /\ parts = snap.parts0
    /\ cnt.read[cp.partition] = 1 /\ cnt.ddIn = 0

C14_MissingOutputIsAnError ==
    [][/\ (/\ cp.pc = "copy_out" /\ cp.partition # "boot"
           /\ cnt'.e2cp = "done"
           /\ host'[TmpOutFile(Head(cp.rest))] = 0)
          => /\ cp'.pc = "done" /\ cp'.result = "ErrVerify"
             /\ host' = host
             /\ cp'.rest = cp.rest
       /\ (cp.pc = "done" /\ cp.result = "ErrVerify")
          => /\ cp'.pc = "loop" /\ cnt' = NoCounts
             /\ host' = host]_vars
C14_Witness ==
    /\ FromReturned /\ cp.result = "ErrVerify"
    /\ cp.partition = "cert" /\ cnt.e2cp = "done"
    /\ Len(cp.reqs) = 2 /\ cp.rest = cp.reqs
    /\ host = snap.host0

\* C18: the steps of one copy_to_image call are one block per partition of
\* the requests, the blocks one after the other in some order: partition
\* number, partition offset, extraction, then for each request of the
\* partition, in the order of the request list, the directory creation (one
\* mmd per directory of the path on boot, one e2mkdir on the others) and the
\* copy, and at last the write-back.  A call that fails has made a prefix of
\* these steps.
RECURSIVE Flatten(_)
Flatten(ss) == IF ss = <<>> THEN <<>> ELSE Head(ss) \o Flatten(Tail(ss))
RequestsOf(k) == SelectSeq(cp.reqs, LAMBDA r : r.partition = k)
StepsOf(r) ==
    [i \in 1..(IF r.partition = "boot" THEN Len(r.out_file) - 1 ELSE 1) |->
        <<"mkdir", r.partition, r.in_file>>]
    \o << <<"copy", r.partition, r.in_file>> >>
Block(k) ==
    << <<"num", k, 0>>, <<"offset", k, 0>>, <<"read", k, 0>> >>
    \o Flatten([i \in 1..Len(RequestsOf(k)) |-> StepsOf(RequestsOf(k)[i])])
    \o << <<"write", k, 0>> >>
Orders ==
    {o \in [1..Cardinality(Touched) -> Touched] :
        \A i, j \in DOMAIN o : i # j => o[i] # o[j]}
IsPrefix(a, b) == Len(a) <= Len(b) /\ a = SubSeq(b, 1, Len(a))
C18_BlockPerPartition ==
    cp.op = "to"
        => \E o \in Orders :
              LET full == Flatten([i \in DOMAIN o |-> Block(o[i])])
              IN /\ IsPrefix(cnt.log, full)
                 /\ (ToReturned /\ cp.result = "Ok") => cnt.log = full
C18_Witness ==
    /\ ToReturned /\ cp.result = "Ok"
    /\ Len(cp.reqs) = 2 /\ Touched = {"boot"}
    /\ cp.reqs[1].out_file = <<"d", "e", "x">>
    /\ cp.reqs[2].out_file = <<"x">>
    /\ Len(cnt.log) = 8

\* the fdisk row of the partition in work
Row == FdiskRows(disklabel)[cp.partition_num]

\* C19: when read_partition has made a scratch file, the file holds the
\* sectors of the image from the partition's Start to its End and no other.
C19_ScratchIsOnePartition ==
    cp.pc = "read_sync"
        => parts[cp.partition_num].data = SubSeq(img, Row[1] + 1, Row[2] + 1)

\* C20: read_partition and write_partition work on the same sectors: both
\* start at the Start column of the partition's fdisk row and both take the
\* End column of that row as the number of sectors, as it stands.  The
\* scratch file is made of the End sectors of the image from Start on (or of
\* those the image has), and the write-back puts the first End sectors of the
\* scratch file at Start and leaves every other sector alone.
C20_SameOffsetAndCount ==
    [][/\ (cp.pc = "read" /\ cp'.pc = "read_sync")
          => /\ cp.partition_offset = Row
             /\ parts'[cp.partition_num].data
                  = SubSeq(img, Row[1] + 1, Min(Row[1] + Row[2], Len(img)))
       /\ (cp.pc = "write" /\ cp'.pc = "fallocate")
          => LET data == parts[cp.partition_num].data
                 m == Min(Row[2], Len(data))
             IN /\ cp.partition_offset = Row
                /\ Len(img') = Len(img)
                /\ \A i \in 1..Len(img) :
                      img'[i] = IF i > Row[1] /\ i <= Row[1] + m
                                THEN data[i - Row[1]] ELSE img[i]]_vars
\* boot, whose row is Start 2 and End 2, read and written as two sectors
C20_Witness ==
    /\ cp.op = "to" /\ cp.pc = "fallocate" /\ cp.partition = "boot"
    /\ ~snap.parts0[1].exists
    /\ Row = <<2, 2>>
    /\ Len(parts[1].data) = 2
    /\ SubSeq(img, 3, 4) = parts[1].data
    /\ img # snap.img0

\* C21: when the scratch file of a partition exists as copy_to_image starts,
\* the call does not extract the partition: the scratch file it edits and
\* writes back is the one it found plus the files of its own requests, and
\* the write-back puts it over the partition's sectors of the image whatever
\* they hold, so what the image got since the scratch file was made is lost.
StaleScratch ==
    /\ cp.op = "to" /\ cp.partition \in Partition
    /\ cp.pc \in {"mmd", "mcopy", "e2mkdir", "e2cp", "write", "fallocate", "write_sync"}
    /\ snap.parts0[cp.partition_num].exists
OwnBodies(out_file) ==
    {cp.reqs[i].in_file :
        i \in {j \in DOMAIN cp.reqs : /\ cp.reqs[j].partition = cp.partition
                                      /\ cp.reqs[j].out_file = out_file}}
C21_StaleScratchIsWrittenBack ==
    StaleScratch
        => LET old == snap.parts0[cp.partition_num].data
               data == parts[cp.partition_num].data
               m == Min(Row[2], Len(data))
           IN /\ Len(data) = Len(old)
              /\ \A i \in 2..Len(data) : data[i] = old[i]
              /\ Len(data) >= 1
                   => /\ data[1].tag = old[1].tag
                      /\ \A f \in InPaths :
                            data[1].fs.files[f]
                               \in {old[1].fs.files[f]} \cup OwnBodies(f)
                      /\ old[1].fs.dirs \subseteq data[1].fs.dirs
              /\ cp.pc \in {"fallocate", "write_sync"}
                   => /\ snap.wrote[cp.partition] = data
                      /\ SubSeq(img, Row[1] + 1, Row[1] + m) = SubSeq(data, 1, m)
\* rootA was written back earlier in the call, and the write-back of the boot
\* scratch file found at the start has put the old first sector of rootA over
\* it
C21_Witness ==
    /\ StaleScratch /\ cp.pc = "fallocate" /\ cp.partition = "boot"
    /\ snap.wrote["rootA"] # <<>>
    /\ Len(parts[1].data) = 2
    /\ img[4] = snap.parts0[1].data[2]
    /\ img[4] # snap.wrote["rootA"][1]

\* the body of the file at path f of partition k of an image, 0 when the
\* partition holds no such file
FileAt(image, k, f) ==
    LET sector == image[FdiskRows(disklabel)[NumOf(k)][1] + 1]
    IN IF sector.tag = "fs" THEN sector.fs.files[f] ELSE 0
\* C26: after successful copy_to_image calls on the same image and directory,
\* a file that an earlier call wrote to a partition is still in the image
\* with its body unless a request of the later call wrote the same partition
\* and path: the write-back of another partition never reverts it.
C26_EarlierFilesStay ==
    (ToReturned /\ cp.result = "Ok" /\ snap.prevTo # <<>>)
        => \A k \in {"boot", "rootA"} : \A f \in InPaths :
              (/\ FileAt(snap.img0, k, f) # 0
               /\ \A i \in DOMAIN cp.reqs :
                     ~(cp.reqs[i].partition = k /\ cp.reqs[i].out_file = f))
                 => FileAt(img, k, f) = FileAt(snap.img0, k, f)

C24_DestinationOnlyByRename ==
    [][(cp.op = "from" /\ cp.pc \notin {"idle", "done"})
          => /\ \A i \in DOMAIN cp.reqs :
                   LET dest == cp.reqs[i].out_file
                   IN host'[dest] # host[dest]
                         => /\ cp.pc = "rename"
                            /\ dest = Head(cp.rest).out_file
                            /\ Usable(cp.partition_num)
                            /\ host'[dest] = PartFs(cp.partition_num)
                                               .files[Head(cp.rest).in_file]
             /\ (cp'.pc = "done" /\ cp'.result # "Ok")
                   => host' = host /\ cp'.rest = cp.rest]_vars
\* The same for the requests whose destination is not the name of a temp
\* file in the working directory.
C24_DestinationElsewhere ==
    [][(cp.op = "from" /\ cp.pc \notin {"idle", "done"})
          => \A i \in DOMAIN cp.reqs :
                LET dest == cp.reqs[i].out_file
                IN (host'[dest] # host[dest] /\ dest[1] # "wd")
                      => /\ cp.pc = "rename"
                         /\ dest = Head(cp.rest).out_file]_vars

\* C28: copy_to_image is deterministic: the request list, the image, the
\* directory and the outcomes of the commands fix the order in which the
\* partitions are taken, and with it the image and the result.  In a state
\* of the loop over the partitions, where no command has an outcome pending,
\* there is one partition that the call can take next.
C28_OrderIsDetermined ==
    (cp.op = "to" /\ cp.pc = "loop")
        => \A k1, k2 \in {"boot", "rootA"} :
              (/\ ENABLED (ToNextPartition /\ cp'.partition = k1)
               /\ ENABLED (ToNextPartition /\ cp'.partition = k2))
                 => k1 = k2

(***************************************************************************)
(* Claims about the request types (SpecParse)                              *)
(***************************************************************************)

Made == rq.pc = "done" /\ rq.res.ok
Parsed == rq.pc = "done" /\ rq.how = "from_str"
\* where the separators of a string stand
SepAt(str) == {i \in DOMAIN str : str[i] \in Separators}
\* the text behind the last separator of a string
Destination(str) ==
    IF SepAt(str) = {} THEN str
    ELSE LET j == CHOOSE k \in SepAt(str) : \A m \in SepAt(str) : m <= k
         IN SubSeq(str, j + 1, Len(str))
StartsAtRoot(path) == Len(path) >= 1 /\ path[1] = "/"

\* C15: every FileCopyToParams that the public functions make, and that can
\* so be handed to copy_to_image, has an in_file that exists on the host and
\* an out_file that is absolute.
C15_RequestsAreValid ==
    Made => rq.res.in_file \in HostFiles /\ StartsAtRoot(rq.res.out_file)

\* C16: parsing a request string whose destination is not absolute fails,
\* and no command has been run and no call begun by then.
C16_RelativeDestinationFails ==
    (Parsed /\ ~StartsAtRoot(Destination(rq.s)))
        => /\ ~rq.res.ok /\ rq.res.err # "none"
           /\ cp = Idle /\ cnt = NoCounts
           /\ img = NewImage /\ parts = [n \in PartNums |-> NoPart]
C16_Witness ==
    /\ Parsed
    /\ rq.s = <<"in.txt", ",", "boot", ":", "etc/foo">>
    /\ ~rq.res.ok
    /\ rq.res.err = "out-file-path isn't an absolute path"
    /\ cnt.calls = 0

\* C17: a request string is accepted exactly when it has one "," and one
\* ":", in either order, and the texts before, between and behind them are
\* an existing in-file, one of the four partition names and an absolute
\* out-file; the request then holds these three.
Accepted(str, i, j) ==
    /\ i < j
    /\ SepAt(str) = {i, j}
    /\ {str[i], str[j]} = Separators
    /\ SubSeq(str, 1, i - 1) \in HostFiles
    /\ SubSeq(str, i + 1, j - 1) \in {<<k>> : k \in Partition}
    /\ StartsAtRoot(SubSeq(str, j + 1, Len(str)))
C17_AcceptedStrings ==
    Parsed
        => /\ rq.res.ok <=> \E i, j \in DOMAIN rq.s : Accepted(rq.s, i, j)
           /\ \A i, j \in DOMAIN rq.s :
                 Accepted(rq.s, i, j)
                    => /\ rq.res.in_file = SubSeq(rq.s, 1, i - 1)
                       /\ <<rq.res.partition>> = SubSeq(rq.s, i + 1, j - 1)
                       /\ rq.res.out_file = SubSeq(rq.s, j + 1, Len(rq.s))
\* the swapped separators of "in.txt:boot,/etc/foo"
C17_Witness ==
    /\ Parsed
    /\ rq.s = <<"in.txt", ":", "boot", ",", "/", "etc/foo">>
    /\ rq.res = new(<<"in.txt">>, "boot", <<"/", "etc/foo">>)

(***************************************************************************)
(* Claims about get_level (SpecXz)                                         *)
(***************************************************************************)

\* the value spelled by a text of decimal digits with nothing before them but
\* an optional '+', -1 for every other text
Spelled(text) ==
    LET n == Len(text)
        from == IF n > 0 /\ text[1] = "+" THEN 2 ELSE 1
        digit(c) == CASE c = "0" -> 0 [] c = "1" -> 1 [] c = "8" -> 8
                      [] c = "9" -> 9 [] OTHER -> -1
    IN IF from > n \/ \E i \in from..n : digit(text[i]) = -1 THEN -1
       ELSE IF \E i \in from..(n - 1) : digit(text[i]) # 0 THEN 10
       ELSE digit(text[n])
\* C25: the preset level get_level returns is always one of 0..9: it is the
\* configured value when that is an integer of 0..9, and 9 when the variable
\* is not set, is not a number, or is a number outside of 0..9.
C25_LevelInRange ==
    xz.pc = "done"
        => /\ xz.level \in 0..9
           /\ IF xz.env.kind = "text" /\ Spelled(xz.env.text) \in 0..9
              THEN xz.level = Spelled(xz.env.text)
              ELSE xz.level = 9
\* the level 8 was configured, with a sign and a leading zero, and returned
C25_Witness ==
    /\ xz.pc = "done"
    /\ xz.env = [kind |-> "text", text |-> <<"+", "0", "8">>]
    /\ xz.level = 8

(***************************************************************************)
(* Claims about the pipelines (SpecPipe)                                   *)
(***************************************************************************)

PipeAtRest == pipe.pc = "done" /\ \A c \in Stages : pipe.st[c] # "run"
\* C23: in the fdisk | grep | awk pipelines every stage is spawned, with the
\* output handle of the stage before it as its input, before the caller
\* collects the output of the last one.  With pipes that hold a bounded
\* number of lines the pipeline cannot deadlock: while the caller or a
\* process is not finished some step is possible, and for every length of
\* fdisk's output the call returns and the processes exit.
C23_PipelineTerminates ==
    /\ [](pipe.pc = "collect" => \A c \in Stages : pipe.st[c] # "none")
    /\ [](PipeAtRest \/ ENABLED PipeStep)
    /\ <>PipeAtRest
\* fdisk printed more lines than a pipe holds, all of them selected by grep,
\* and the caller has collected them
C23_Witness ==
    /\ PipeAtRest /\ pipe.result = "Ok"
    /\ pipe.lines = [i \in 1..MaxLines |-> "hit"]
    /\ Len(pipe.lines) > PipeCap
    /\ Len(pipe.out) = Len(pipe.lines)

(***************************************************************************)
(* Claims about two calls at once (SpecRace)                               *)
(***************************************************************************)

BothOk == \A p \in Procs : race.pc[p] = "done" /\ race.result[p] = "Ok"
\* C22: two copy_to_image calls that run at the same time on the same image
\* and partition use the same scratch file name, and no step of one call
\* waits for the other: whatever the other call is doing, a call that has
\* not returned can take its next step.  When both return Ok the image holds
\* the file of at least one of them; the interleaving in which it lacks the
\* file of the other is the witness.
C22_SharedScratchNoLock ==
    /\ \A p, q \in Procs : partition_file(p) = partition_file(q)
    /\ \A p \in Procs : race.pc[p] # "done" => ENABLED RaceStep(p)
    /\ BothOk => \E p \in Procs : race.img[race.req[p]] = p
\* both calls returned Ok, and the image has the file of the second call but
\* not the file the first call wrote to another path
C22_Witness ==
    /\ BothOk
    /\ race.req[1] = "a" /\ race.req[2] = "b"
    /\ race.img["a"] = 0 /\ race.img["b"] = 2

====
